---- MODULE Spec2Model ----
(***************************************************************************)
(* Model of the analysis core of uk-wind-weather-impact:                   *)
(*   WindImpactAnalyzer.analyze_current_conditions  (classifier)           *)
(*   WindImpactAnalyzer.analyze_forecast            (event extractor)      *)
(*   WindImpactAnalyzer.get_overall_status          (status aggregator)    *)
(*   WeatherFrontTracker.detect_pressure_systems, detect_fronts and        *)
(*   calculate_front_velocity                       (spatial detector)     *)
(*                                                                         *)
(* Units.  Wind speeds and temperatures are held in tenths (3.5 m/s is 35, *)
(* -1.0 degC is -10), humidity in percent, timestamps and durations in     *)
(* whole hours.  A capacity factor is held as a numerator over CapDen, so  *)
(* 1.0 is CapDen and ((s - 3.5) / 9.0)^3 is (s10 - 35)^3 over 90^3.        *)
(* A Python None is the empty sequence, a present value x is <<x>>.        *)
(***************************************************************************)
EXTENDS Integers, Sequences, FiniteSets, TLC

VARIABLES
    pc,                 \* position of the caller: the routine to call next, or done
    weather,            \* the sample given to analyze_current_conditions
    status,             \* its result (current_status), None before the call
    forecast,           \* the list given to analyze_forecast
    current_time,       \* the reference time given to analyze_forecast
    idx,                \* position of the loop 'for hour in forecast'
    in_event,           \* local in_event
    event_start,        \* local event_start
    event_type,         \* local event_type
    event_severity,     \* local event_severity
    event_description,  \* local event_description
    events,             \* local events, then the list given to get_overall_status
    ev_idx,             \* position of the loop 'for event in events'
    overall,            \* local overall of get_overall_status, None before the call
    first_overall,      \* what an earlier call with the same arguments returned, or None
    grid,               \* the grid_data list given to the WeatherFrontTracker routines
    systems,            \* result of detect_pressure_systems
    sorted_data,        \* local sorted_data of detect_fronts
    fronts,             \* result of detect_fronts
    motion              \* result of calculate_front_velocity, None before the call

vars == <<pc, weather, status, forecast, current_time, idx, in_event, event_start,
          event_type, event_severity, event_description, events, ev_idx, overall,
          first_overall, grid, systems, sorted_data, fronts, motion>>

\* The state of the WeatherFrontTracker routines, and that of the analyzer.
gridvars == <<grid, systems, sorted_data, fronts, motion>>
analyzervars == <<weather, status, forecast, current_time, idx, in_event, event_start,
                  event_type, event_severity, event_description, events, ev_idx, overall,
                  first_overall>>

None == << >>
Some(x) == <<x>>

-----------------------------------------------------------------------------
(* Thresholds, in tenths of m/s and tenths of degC.                        *)

CUT_IN_SPEED == 35
RATED_SPEED == 125
CUT_OUT_SPEED == 250
ICING_TEMP == 0
ICING_HUMIDITY == 80

\* Denominator of a capacity factor: (RATED_SPEED - CUT_IN_SPEED)^3.
CapDen == (RATED_SPEED - CUT_IN_SPEED) * (RATED_SPEED - CUT_IN_SPEED)
              * (RATED_SPEED - CUT_IN_SPEED)

\* Mutant of EstimateCapacityFactor: a cubic numerator over a quadratic curve.
EstimateCapacityFactor_Square(wind_speed) ==
    IF wind_speed < CUT_IN_SPEED THEN 0
    ELSE IF wind_speed >= RATED_SPEED THEN CapDen
    ELSE (wind_speed - CUT_IN_SPEED) * (wind_speed - CUT_IN_SPEED)
             * (RATED_SPEED - CUT_IN_SPEED)

\* _estimate_capacity_factor, as a numerator over CapDen.
EstimateCapacityFactor(wind_speed) ==
    IF wind_speed < CUT_IN_SPEED THEN 0
    ELSE IF wind_speed >= RATED_SPEED THEN CapDen
    ELSE (wind_speed - CUT_IN_SPEED) * (wind_speed - CUT_IN_SPEED)
             * (wind_speed - CUT_IN_SPEED)

\* The '.0f' format of capacity_factor*100: the nearest integer, ties to even.
FormatPercent(cf) ==
    LET q == (100 * cf) \div CapDen
        r == (100 * cf) % CapDen
    IN  IF 2 * r < CapDen THEN q
        ELSE IF 2 * r > CapDen THEN q + 1
        ELSE IF q % 2 = 0 THEN q ELSE q + 1

\* The issue appended by the cut-out branch.
CutOutIssue(w) ==
    [type |-> "cut_out", severity |-> "critical",
     description |-> [text |-> "High winds - Emergency shutdown",
                      wind_speed |-> w.wind_speed_ms, wind_gust |-> w.wind_gust_ms],
     wind_speed |-> w.wind_speed_ms]

\* The issue appended by the cut-in branch.
CutInIssue(w) ==
    [type |-> "cut_in", severity |-> "low",
     description |-> [text |-> "Low wind - No generation",
                      wind_speed |-> w.wind_speed_ms],
     wind_speed |-> w.wind_speed_ms]

\* The issue appended by the sub-optimal branch.
SubOptimalIssue(w, cf) ==
    [type |-> "sub_optimal", severity |-> "low",
     description |-> [text |-> "Below rated speed",
                      wind_speed |-> w.wind_speed_ms, percent |-> FormatPercent(cf)],
     wind_speed |-> w.wind_speed_ms,
     capacity_factor |-> cf]

\* The issue appended by the icing check.
IcingIssue(w) ==
    [type |-> "icing", severity |-> "medium",
     description |-> [text |-> "Icing risk",
                      temperature |-> w.temperature_c, humidity |-> w.humidity_pct],
     temperature |-> w.temperature_c,
     humidity |-> w.humidity_pct]

\* The status dict as first built.
InitialStatus(w) ==
    [timestamp |-> w.timestamp, operational |-> TRUE, capacity_factor |-> CapDen,
     status |-> "normal", color |-> "green", issues |-> << >>]

\* Mutant of WindBranch: a speed equal to the cut-in speed is idle.
WindBranch_CutInInclusive(w, st) ==
    IF w.wind_gust_ms >= CUT_OUT_SPEED \/ w.wind_speed_ms >= CUT_OUT_SPEED
    THEN [st EXCEPT !.operational = FALSE, !.capacity_factor = 0,
                    !.status = "shutdown", !.color = "red",
                    !.issues = Append(@, CutOutIssue(w))]
    ELSE IF w.wind_speed_ms <= CUT_IN_SPEED
    THEN [st EXCEPT !.operational = TRUE, !.capacity_factor = 0,
                    !.status = "idle", !.color = "yellow",
                    !.issues = Append(@, CutInIssue(w))]
    ELSE IF w.wind_speed_ms < RATED_SPEED
    THEN LET cf == EstimateCapacityFactor(w.wind_speed_ms)
         IN  [st EXCEPT !.capacity_factor = cf,
                        !.status = "sub_optimal", !.color = "yellow",
                        !.issues = Append(@, SubOptimalIssue(w, cf))]
    ELSE st

\* Mutant of WindBranch: the cut-out test looks at the sustained speed only.
WindBranch_SpeedOnly(w, st) ==
    IF w.wind_speed_ms >= CUT_OUT_SPEED
    THEN [st EXCEPT !.operational = FALSE, !.capacity_factor = 0,
                    !.status = "shutdown", !.color = "red",
                    !.issues = Append(@, CutOutIssue(w))]
    ELSE IF w.wind_speed_ms < CUT_IN_SPEED
    THEN [st EXCEPT !.operational = TRUE, !.capacity_factor = 0,
                    !.status = "idle", !.color = "yellow",
                    !.issues = Append(@, CutInIssue(w))]
    ELSE IF w.wind_speed_ms < RATED_SPEED
    THEN LET cf == EstimateCapacityFactor(w.wind_speed_ms)
         IN  [st EXCEPT !.capacity_factor = cf,
                        !.status = "sub_optimal", !.color = "yellow",
                        !.issues = Append(@, SubOptimalIssue(w, cf))]
    ELSE st

\* Mutant of WindBranch: the cut-in branch leaves the capacity factor at 1.0.
WindBranch_IdleKeepsCapacity(w, st) ==
    IF w.wind_gust_ms >= CUT_OUT_SPEED \/ w.wind_speed_ms >= CUT_OUT_SPEED
    THEN [st EXCEPT !.operational = FALSE, !.capacity_factor = 0,
                    !.status = "shutdown", !.color = "red",
                    !.issues = Append(@, CutOutIssue(w))]
    ELSE IF w.wind_speed_ms < CUT_IN_SPEED
    THEN [st EXCEPT !.operational = TRUE,
                    !.status = "idle", !.color = "yellow",
                    !.issues = Append(@, CutInIssue(w))]
    ELSE IF w.wind_speed_ms < RATED_SPEED
    THEN LET cf == EstimateCapacityFactor(w.wind_speed_ms)
         IN  [st EXCEPT !.capacity_factor = cf,
                        !.status = "sub_optimal", !.color = "yellow",
                        !.issues = Append(@, SubOptimalIssue(w, cf))]
    ELSE st

\* The if / elif / elif chain on the wind: cut-out, cut-in, sub-optimal.
WindBranch(w, st) ==
    IF w.wind_gust_ms >= CUT_OUT_SPEED \/ w.wind_speed_ms >= CUT_OUT_SPEED
    THEN [st EXCEPT !.operational = FALSE, !.capacity_factor = 0,
                    !.status = "shutdown", !.color = "red",
                    !.issues = Append(@, CutOutIssue(w))]
    ELSE IF w.wind_speed_ms < CUT_IN_SPEED
    THEN [st EXCEPT !.operational = TRUE, !.capacity_factor = 0,
                    !.status = "idle", !.color = "yellow",
                    !.issues = Append(@, CutInIssue(w))]
    ELSE IF w.wind_speed_ms < RATED_SPEED
    THEN LET cf == EstimateCapacityFactor(w.wind_speed_ms)
         IN  [st EXCEPT !.capacity_factor = cf,
                        !.status = "sub_optimal", !.color = "yellow",
                        !.issues = Append(@, SubOptimalIssue(w, cf))]
    ELSE st

\* Mutant of IcingCheck: the icing issue is appended only when no wind branch
\* was taken.
IcingCheck_OnlyWhenGreen(w, st) ==
    IF w.temperature_c <= ICING_TEMP /\ w.humidity_pct >= ICING_HUMIDITY
           /\ st.color = "green"
    THEN [st EXCEPT !.issues = Append(@, IcingIssue(w)),
                    !.color = "orange", !.status = "icing_risk"]
    ELSE st

\* Mutant of IcingCheck: the icing issue is appended, colour and status stay.
IcingCheck_NoEscalation(w, st) ==
    IF w.temperature_c <= ICING_TEMP /\ w.humidity_pct >= ICING_HUMIDITY
    THEN [st EXCEPT !.issues = Append(@, IcingIssue(w))]
    ELSE st

\* The icing check that follows the wind chain.
IcingCheck(w, st) ==
    IF w.temperature_c <= ICING_TEMP /\ w.humidity_pct >= ICING_HUMIDITY
    THEN LET st1 == [st EXCEPT !.issues = Append(@, IcingIssue(w))]
         IN  IF st1.color = "green"
             THEN [st1 EXCEPT !.color = "orange", !.status = "icing_risk"]
             ELSE st1
    ELSE st

\* analyze_current_conditions.
Classify(w) == IcingCheck(w, WindBranch(w, InitialStatus(w)))

-----------------------------------------------------------------------------
(* Inputs.                                                                 *)

SampleSpeeds == {0, 34, 35, 80, 124, 125, 200, 249, 250, 300}
SampleGusts == {100, 249, 250}
SampleTemps == {-10, 0, 1}
SampleHumidities == {79, 80, 85}

MkSample(ts, ws, wg, t, h) ==
    [timestamp |-> ts, wind_speed_ms |-> ws, wind_gust_ms |-> wg,
     temperature_c |-> t, humidity_pct |-> h]

Samples ==
    {MkSample(0, ws, wg, t, h) :
        ws \in SampleSpeeds, wg \in SampleGusts, t \in SampleTemps, h \in SampleHumidities}

-----------------------------------------------------------------------------
(* analyze_forecast: one action per path through the body of the loop.     *)

\* Mutant of ClosedEvent: eta_hours is not floored at 0.
ClosedEvent_NoFloor(type, severity, description, start, end, now) ==
    LET eta == start - now
        duration == end - start
    IN  [type |-> type, severity |-> severity,
         start_time |-> start, end_time |-> Some(end),
         eta_hours |-> eta,
         duration_hours |-> Some(duration),
         description |-> description,
         status |-> IF eta > 0 THEN "upcoming" ELSE "current"]

\* The event appended when an event ends inside the forecast.
ClosedEvent(type, severity, description, start, end, now) ==
    LET eta == start - now
        duration == end - start
    IN  [type |-> type, severity |-> severity,
         start_time |-> start, end_time |-> Some(end),
         eta_hours |-> IF eta > 0 THEN eta ELSE 0,
         duration_hours |-> Some(duration),
         description |-> description,
         status |-> IF eta > 0 THEN "upcoming" ELSE "current"]

\* The event appended when the forecast ends inside an event.
OpenEvent(type, severity, description, start, now) ==
    LET eta == start - now
    IN  [type |-> type, severity |-> severity,
         start_time |-> start, end_time |-> None,
         eta_hours |-> IF eta > 0 THEN eta ELSE 0,
         duration_hours |-> None,
         description |-> description,
         status |-> IF eta > 0 THEN "upcoming" ELSE "current"]

\* Mutant of FcStartEvent: event_start is set by the first event only.
FcStartEvent_StaleStart ==
    /\ pc = "forecast"
    /\ idx <= Len(forecast)
    /\ LET hour == forecast[idx]
           hour_status == Classify(hour)
       IN  /\ ~in_event
           /\ hour_status.issues # << >>
           /\ in_event' = TRUE
           /\ event_start' = IF event_start = None THEN Some(hour.timestamp)
                             ELSE event_start
           /\ event_type' = Some(hour_status.issues[1].type)
           /\ event_severity' = Some(hour_status.issues[1].severity)
           /\ event_description' = Some(hour_status.issues[1].description)
    /\ idx' = idx + 1
    /\ UNCHANGED <<gridvars, first_overall>>
    /\ UNCHANGED <<pc, weather, status, forecast, current_time, events, ev_idx, overall>>

\* 'if not in_event and hour_status["issues"]': an event starts at this hour.
FcStartEvent ==
    /\ pc = "forecast"
    /\ idx <= Len(forecast)
    /\ LET hour == forecast[idx]
           hour_status == Classify(hour)
       IN  /\ ~in_event
           /\ hour_status.issues # << >>
           /\ in_event' = TRUE
           /\ event_start' = Some(hour.timestamp)
           /\ event_type' = Some(hour_status.issues[1].type)
           /\ event_severity' = Some(hour_status.issues[1].severity)
           /\ event_description' = Some(hour_status.issues[1].description)
    /\ idx' = idx + 1
    /\ UNCHANGED <<gridvars, first_overall>>
    /\ UNCHANGED <<pc, weather, status, forecast, current_time, events, ev_idx, overall>>

\* Mutant of FcEndEvent: the event ends at its last impacted hour.
FcEndEvent_LastBadHour ==
    /\ pc = "forecast"
    /\ idx <= Len(forecast)
    /\ LET hour == forecast[idx]
           hour_status == Classify(hour)
       IN  /\ in_event
           /\ hour_status.issues = << >>
           /\ events' = Append(events,
                  ClosedEvent(event_type[1], event_severity[1], event_description[1],
                              event_start[1], forecast[idx - 1].timestamp, current_time))
           /\ in_event' = FALSE
    /\ idx' = idx + 1
    /\ UNCHANGED <<gridvars, first_overall>>
    /\ UNCHANGED <<pc, weather, status, forecast, current_time, event_start, event_type,
                   event_severity, event_description, ev_idx, overall>>

\* 'elif in_event and not hour_status["issues"]': the event ends at this hour.
FcEndEvent ==
    /\ pc = "forecast"
    /\ idx <= Len(forecast)
    /\ LET hour == forecast[idx]
           hour_status == Classify(hour)
       IN  /\ in_event
           /\ hour_status.issues = << >>
           /\ events' = Append(events,
                  ClosedEvent(event_type[1], event_severity[1], event_description[1],
                              event_start[1], hour.timestamp, current_time))
           /\ in_event' = FALSE
    /\ idx' = idx + 1
    /\ UNCHANGED <<gridvars, first_overall>>
    /\ UNCHANGED <<pc, weather, status, forecast, current_time, event_start, event_type,
                   event_severity, event_description, ev_idx, overall>>

\* Mutant of FcContinue: an impacted hour inside an event re-reads its first issue.
FcContinue_Reevaluate ==
    /\ pc = "forecast"
    /\ idx <= Len(forecast)
    /\ LET hour == forecast[idx]
           hour_status == Classify(hour)
       IN  /\ in_event <=> hour_status.issues # << >>
           /\ event_type' = IF in_event THEN Some(hour_status.issues[1].type)
                            ELSE event_type
           /\ event_severity' = IF in_event THEN Some(hour_status.issues[1].severity)
                                ELSE event_severity
           /\ event_description' = IF in_event THEN Some(hour_status.issues[1].description)
                                   ELSE event_description
    /\ idx' = idx + 1
    /\ UNCHANGED <<gridvars, first_overall>>
    /\ UNCHANGED <<pc, weather, status, forecast, current_time, in_event, event_start,
                   events, ev_idx, overall>>

\* Mutant of FcContinue: a critical hour inside an event makes the event critical.
FcContinue_KeepsWorst ==
    /\ pc = "forecast"
    /\ idx <= Len(forecast)
    /\ LET hour == forecast[idx]
           hour_status == Classify(hour)
           worse == in_event /\ hour_status.issues # << >>
                        /\ hour_status.issues[1].severity = "critical"
       IN  /\ in_event <=> hour_status.issues # << >>
           /\ event_type' = IF worse THEN Some(hour_status.issues[1].type)
                            ELSE event_type
           /\ event_severity' = IF worse THEN Some("critical") ELSE event_severity
           /\ event_description' = IF worse THEN Some(hour_status.issues[1].description)
                                   ELSE event_description
    /\ idx' = idx + 1
    /\ UNCHANGED <<gridvars, first_overall>>
    /\ UNCHANGED <<pc, weather, status, forecast, current_time, in_event, event_start,
                   events, ev_idx, overall>>

\* Neither branch: an impacted hour inside an event, or a clear hour outside one.
FcContinue ==
    /\ pc = "forecast"
    /\ idx <= Len(forecast)
    /\ LET hour == forecast[idx]
           hour_status == Classify(hour)
       IN  in_event <=> hour_status.issues # << >>
    /\ idx' = idx + 1
    /\ UNCHANGED <<gridvars, first_overall>>
    /\ UNCHANGED <<pc, weather, status, forecast, current_time, in_event, event_start,
                   event_type, event_severity, event_description, events, ev_idx, overall>>

\* Mutant of FcReturn: an event still open at the end of the forecast is closed at
\* the timestamp of the last hour.
FcReturn_CloseAtLast ==
    /\ pc = "forecast"
    /\ idx > Len(forecast)
    /\ events' = IF in_event
                 THEN Append(events,
                          ClosedEvent(event_type[1], event_severity[1], event_description[1],
                                      event_start[1], forecast[Len(forecast)].timestamp,
                                      current_time))
                 ELSE events
    /\ pc' = "overall"
    /\ UNCHANGED <<gridvars, first_overall>>
    /\ UNCHANGED <<weather, status, forecast, current_time, idx, in_event, event_start,
                   event_type, event_severity, event_description, ev_idx, overall>>

\* Mutant of FcReturn: an event still open at the end of the forecast is dropped.
FcReturn_DropOpen ==
    /\ pc = "forecast"
    /\ idx > Len(forecast)
    /\ pc' = "overall"
    /\ UNCHANGED <<gridvars, first_overall>>
    /\ UNCHANGED <<weather, status, forecast, current_time, idx, in_event, event_start,
                   event_type, event_severity, event_description, events, ev_idx, overall>>

\* After the loop: 'if in_event' appends the open event; return events.
FcReturn ==
    /\ pc = "forecast"
    /\ idx > Len(forecast)
    /\ events' = IF in_event
                 THEN Append(events,
                          OpenEvent(event_type[1], event_severity[1], event_description[1],
                                    event_start[1], current_time))
                 ELSE events
    /\ pc' = "overall"
    /\ UNCHANGED <<gridvars, first_overall>>
    /\ UNCHANGED <<weather, status, forecast, current_time, idx, in_event, event_start,
                   event_type, event_severity, event_description, ev_idx, overall>>

-----------------------------------------------------------------------------
(* get_overall_status: one action per path through the body of the loop.   *)

\* The priority_issue built from an event.
SynthIssue(event) ==
    [type |-> event.type, severity |-> event.severity,
     description |-> [warning |-> event.description, eta_hours |-> event.eta_hours]]

\* Mutant of OvInit: the scan goes on from where an earlier call left it.
OvInit_KeepsPosition ==
    /\ pc = "overall"
    /\ overall' = Some([current |-> status[1],
                        upcoming_events |-> events,
                        priority_color |-> status[1].color,
                        priority_issue |-> IF status[1].issues # << >>
                                           THEN Some(status[1].issues[1]) ELSE None])
    /\ ev_idx' = IF overall # None THEN ev_idx ELSE 1
    /\ pc' = "scan"
    /\ UNCHANGED <<gridvars, first_overall>>
    /\ UNCHANGED <<weather, status, forecast, current_time, idx, in_event, event_start,
                   event_type, event_severity, event_description, events>>

\* The overall dict as first built.
OvInit ==
    /\ pc = "overall"
    /\ overall' = Some([current |-> status[1],
                        upcoming_events |-> events,
                        priority_color |-> status[1].color,
                        priority_issue |-> IF status[1].issues # << >>
                                           THEN Some(status[1].issues[1]) ELSE None])
    /\ ev_idx' = 1
    /\ pc' = "scan"
    /\ UNCHANGED <<gridvars, first_overall>>
    /\ UNCHANGED <<weather, status, forecast, current_time, idx, in_event, event_start,
                   event_type, event_severity, event_description, events>>

\* Mutant of OvCritical: no break after a critical match.
OvCritical_NoBreak ==
    /\ pc = "scan"
    /\ ev_idx <= Len(events)
    /\ LET event == events[ev_idx]
       IN  /\ event.severity = "critical" /\ event.eta_hours < 24
           /\ overall' = Some([overall[1] EXCEPT !.priority_color = "red",
                                                 !.priority_issue = Some(SynthIssue(event))])
    /\ ev_idx' = ev_idx + 1
    /\ UNCHANGED <<gridvars, first_overall>>
    /\ UNCHANGED <<pc, weather, status, forecast, current_time, idx, in_event, event_start,
                   event_type, event_severity, event_description, events>>

\* Mutant of OvCritical: the issue of an earlier medium match is kept.
OvCritical_KeepsMediumIssue ==
    /\ pc = "scan"
    /\ ev_idx <= Len(events)
    /\ LET event == events[ev_idx]
       IN  /\ event.severity = "critical" /\ event.eta_hours < 24
           /\ overall' = IF overall[1].priority_color = "orange"
                         THEN Some([overall[1] EXCEPT !.priority_color = "red"])
                         ELSE Some([overall[1] EXCEPT
                                       !.priority_color = "red",
                                       !.priority_issue = Some(SynthIssue(event))])
    /\ pc' = "done"
    /\ UNCHANGED <<gridvars, first_overall>>
    /\ UNCHANGED <<weather, status, forecast, current_time, idx, in_event, event_start,
                   event_type, event_severity, event_description, events, ev_idx>>

\* 'if severity == critical and eta_hours < 24': red, this event's issue, break.
OvCritical ==
    /\ pc = "scan"
    /\ ev_idx <= Len(events)
    /\ LET event == events[ev_idx]
       IN  /\ event.severity = "critical" /\ event.eta_hours < 24
           /\ overall' = Some([overall[1] EXCEPT !.priority_color = "red",
                                                 !.priority_issue = Some(SynthIssue(event))])
    /\ pc' = "done"
    /\ UNCHANGED <<gridvars, first_overall>>
    /\ UNCHANGED <<weather, status, forecast, current_time, idx, in_event, event_start,
                   event_type, event_severity, event_description, events, ev_idx>>

\* Mutant of OvMedium: orange is set without looking at the colour held.
OvMedium_NoRedCheck ==
    /\ pc = "scan"
    /\ ev_idx <= Len(events)
    /\ LET event == events[ev_idx]
       IN  /\ ~(event.severity = "critical" /\ event.eta_hours < 24)
           /\ event.severity = "medium" /\ event.eta_hours < 12
           /\ overall' = Some([overall[1] EXCEPT !.priority_color = "orange",
                                                 !.priority_issue = Some(SynthIssue(event))])
    /\ ev_idx' = ev_idx + 1
    /\ UNCHANGED <<gridvars, first_overall>>
    /\ UNCHANGED <<pc, weather, status, forecast, current_time, idx, in_event, event_start,
                   event_type, event_severity, event_description, events>>

\* Mutant of OvMedium: only the first medium match is taken.
OvMedium_FirstWins ==
    /\ pc = "scan"
    /\ ev_idx <= Len(events)
    /\ LET event == events[ev_idx]
       IN  /\ ~(event.severity = "critical" /\ event.eta_hours < 24)
           /\ event.severity = "medium" /\ event.eta_hours < 12
           /\ overall' = IF overall[1].priority_color \notin {"red", "orange"}
                         THEN Some([overall[1] EXCEPT
                                       !.priority_color = "orange",
                                       !.priority_issue = Some(SynthIssue(event))])
                         ELSE overall
    /\ ev_idx' = ev_idx + 1
    /\ UNCHANGED <<gridvars, first_overall>>
    /\ UNCHANGED <<pc, weather, status, forecast, current_time, idx, in_event, event_start,
                   event_type, event_severity, event_description, events>>

\* Mutant of OvMedium: a medium event at exactly 12 hours qualifies.
OvMedium_Inclusive12 ==
    /\ pc = "scan"
    /\ ev_idx <= Len(events)
    /\ LET event == events[ev_idx]
       IN  /\ ~(event.severity = "critical" /\ event.eta_hours < 24)
           /\ event.severity = "medium" /\ event.eta_hours <= 12
           /\ overall' = IF overall[1].priority_color # "red"
                         THEN Some([overall[1] EXCEPT
                                       !.priority_color = "orange",
                                       !.priority_issue = Some(SynthIssue(event))])
                         ELSE overall
    /\ ev_idx' = ev_idx + 1
    /\ UNCHANGED <<gridvars, first_overall>>
    /\ UNCHANGED <<pc, weather, status, forecast, current_time, idx, in_event, event_start,
                   event_type, event_severity, event_description, events>>

\* 'elif severity == medium and eta_hours < 12': orange and this event's issue
\* unless the colour held is red; the scan goes on.
OvMedium ==
    /\ pc = "scan"
    /\ ev_idx <= Len(events)
    /\ LET event == events[ev_idx]
       IN  /\ ~(event.severity = "critical" /\ event.eta_hours < 24)
           /\ event.severity = "medium" /\ event.eta_hours < 12
           /\ overall' = IF overall[1].priority_color # "red"
                         THEN Some([overall[1] EXCEPT
                                       !.priority_color = "orange",
                                       !.priority_issue = Some(SynthIssue(event))])
                         ELSE overall
    /\ ev_idx' = ev_idx + 1
    /\ UNCHANGED <<gridvars, first_overall>>
    /\ UNCHANGED <<pc, weather, status, forecast, current_time, idx, in_event, event_start,
                   event_type, event_severity, event_description, events>>

\* Neither branch: the event changes nothing.
OvSkip ==
    /\ pc = "scan"
    /\ ev_idx <= Len(events)
    /\ LET event == events[ev_idx]
       IN  /\ ~(event.severity = "critical" /\ event.eta_hours < 24)
           /\ ~(event.severity = "medium" /\ event.eta_hours < 12)
    /\ ev_idx' = ev_idx + 1
    /\ UNCHANGED <<gridvars, first_overall>>
    /\ UNCHANGED <<pc, weather, status, forecast, current_time, idx, in_event, event_start,
                   event_type, event_severity, event_description, events, overall>>

\* The loop ran to the end of the list: return overall.
OvReturn ==
    /\ pc = "scan"
    /\ ev_idx > Len(events)
    /\ pc' = "done"
    /\ UNCHANGED <<gridvars, first_overall>>
    /\ UNCHANGED <<weather, status, forecast, current_time, idx, in_event, event_start,
                   event_type, event_severity, event_description, events, ev_idx, overall>>

\* The caller keeps what get_overall_status returned and calls it again with
\* the same current_status and events.
OvCallAgain ==
    /\ pc = "done"
    /\ first_overall = None
    /\ first_overall' = overall
    /\ pc' = "overall"
    /\ UNCHANGED gridvars
    /\ UNCHANGED <<weather, status, forecast, current_time, idx, in_event, event_start,
                   event_type, event_severity, event_description, events, ev_idx, overall>>

-----------------------------------------------------------------------------
(* The call of analyze_current_conditions on the current sample.           *)

AnalyzeCurrentConditions ==
    /\ pc = "classify"
    /\ status' = Some(Classify(weather))
    /\ pc' = "forecast"
    /\ UNCHANGED <<gridvars, first_overall>>
    /\ UNCHANGED <<weather, forecast, current_time, idx, in_event, event_start, event_type,
                   event_severity, event_description, events, ev_idx, overall>>

-----------------------------------------------------------------------------
(* WeatherFrontTracker.  Latitudes and longitudes are whole degrees,        *)
(* temperatures whole degC, pressures whole hPa.  A midpoint is held        *)
(* doubled (in half degrees).  A quotient that the code computes in floating *)
(* point is held exactly as [num, den]; den = 0 is the NaN of 0.0 / 0.0.     *)

MIN_GRID_POINTS == 9
NEARBY_DEGREES == 2
HIGH_PRESSURE == 1015
LOW_PRESSURE == 1010

Abs(x) == IF x < 0 THEN -x ELSE x

\* The dict 'hourly' of a grid point: one list per requested series, of which
\* get_grid_weather reads pressure_msl.
MkHourly(pressure_msl) ==
    [time |-> [i \in 1..Len(pressure_msl) |-> i],
     temperature_2m |-> [i \in 1..Len(pressure_msl) |-> 10],
     pressure_msl |-> pressure_msl,
     wind_speed_10m |-> [i \in 1..Len(pressure_msl) |-> 0],
     wind_direction_10m |-> [i \in 1..Len(pressure_msl) |-> 0]]

\* A grid point as get_grid_weather appends it, with all its keys: two points
\* are the same dict only when they agree on every one of them.
MkPoint(lat, lon, temperature, pressure, pressure_trend, wind_speed, wind_direction, weather_code, hourly_forecast) ==
    [lat |-> lat, lon |-> lon, temperature |-> temperature, pressure |-> pressure,
     pressure_trend |-> pressure_trend, wind_speed |-> wind_speed,
     wind_direction |-> wind_direction, weather_code |-> weather_code,
     hourly_forecast |-> hourly_forecast]

\* The pressure three hours ahead minus the pressure now; the pressure now stands
\* for the one ahead when the hourly list has at most 3 values, so the trend is 0.
PressureTrend(pressure_now, pressure_msl) ==
    (IF Len(pressure_msl) > 3 THEN pressure_msl[4] ELSE pressure_now) - pressure_now

\* The dict get_grid_weather appends for one answer of the API: the current
\* values, the trend computed from the hourly pressures, and that same hourly dict.
GridPoint(lat, lon, temperature, pressure_now, wind_speed, wind_direction, weather_code, pressure_msl) ==
    MkPoint(lat, lon, temperature, pressure_now, PressureTrend(pressure_now, pressure_msl),
            wind_speed, wind_direction, weather_code, MkHourly(pressure_msl))

\* Mutant of Nearby: a point is compared with the points before it in the list only.
Nearby_OnlyEarlier(g, point) ==
    LET me == CHOOSE i \in 1..Len(g) : g[i] = point
    IN  {j \in 1..(me - 1) : /\ Abs(g[j].lat - point.lat) < NEARBY_DEGREES
                             /\ Abs(g[j].lon - point.lon) < NEARBY_DEGREES
                             /\ g[j] # point}

\* Mutant of Nearby: a point exactly 2 degrees away is nearby.
Nearby_Inclusive(g, point) ==
    {j \in 1..Len(g) : /\ Abs(g[j].lat - point.lat) <= NEARBY_DEGREES
                       /\ Abs(g[j].lon - point.lon) <= NEARBY_DEGREES
                       /\ g[j] # point}

\* The list 'nearby' of a point, as the positions of its members in the grid.
Nearby(g, point) ==
    {j \in 1..Len(g) : /\ Abs(g[j].lat - point.lat) < NEARBY_DEGREES
                       /\ Abs(g[j].lon - point.lon) < NEARBY_DEGREES
                       /\ g[j] # point}

HighSystem(point) ==
    [type |-> "high", lat |-> point.lat, lon |-> point.lon,
     pressure |-> point.pressure, symbol |-> "H"]

LowSystem(point) ==
    [type |-> "low", lat |-> point.lat, lon |-> point.lon,
     pressure |-> point.pressure, symbol |-> "L"]

\* Mutant of PointSystems: the comparisons with the neighbours are not strict.
PointSystems_NotStrict(g, point) ==
    LET nearby == Nearby(g, point)
    IN  IF nearby = {} THEN << >>
        ELSE IF \A j \in nearby : point.pressure >= g[j].pressure
        THEN IF point.pressure > HIGH_PRESSURE THEN <<HighSystem(point)>> ELSE << >>
        ELSE IF \A j \in nearby : point.pressure <= g[j].pressure
        THEN IF point.pressure < LOW_PRESSURE THEN <<LowSystem(point)>> ELSE << >>
        ELSE << >>

\* Mutant of PointSystems: above (below) some nearby point instead of all.
PointSystems_AnyNeighbour(g, point) ==
    LET nearby == Nearby(g, point)
    IN  IF nearby = {} THEN << >>
        ELSE IF \E j \in nearby : point.pressure > g[j].pressure
        THEN IF point.pressure > HIGH_PRESSURE THEN <<HighSystem(point)>> ELSE << >>
        ELSE IF \E j \in nearby : point.pressure < g[j].pressure
        THEN IF point.pressure < LOW_PRESSURE THEN <<LowSystem(point)>> ELSE << >>
        ELSE << >>

\* The body of the loop 'for point in grid_data': what one point appends.
PointSystems(g, point) ==
    LET nearby == Nearby(g, point)
    IN  IF nearby = {} THEN << >>
        ELSE IF \A j \in nearby : point.pressure > g[j].pressure
        THEN IF point.pressure > HIGH_PRESSURE THEN <<HighSystem(point)>> ELSE << >>
        ELSE IF \A j \in nearby : point.pressure < g[j].pressure
        THEN IF point.pressure < LOW_PRESSURE THEN <<LowSystem(point)>> ELSE << >>
        ELSE << >>

RECURSIVE SystemsFrom(_, _)
\* The loop over the grid from position i on.
SystemsFrom(g, i) ==
    IF i > Len(g) THEN << >> ELSE PointSystems(g, g[i]) \o SystemsFrom(g, i + 1)

\* Mutant of DetectPressureSystems: no floor on the number of grid points.
DetectPressureSystems_NoFloor(g) == SystemsFrom(g, 1)

\* detect_pressure_systems.
DetectPressureSystems(g) ==
    IF Len(g) < MIN_GRID_POINTS THEN << >> ELSE SystemsFrom(g, 1)

RECURSIVE SortedByLat(_)
\* sorted(grid_data, key=lat): ascending and stable, points of equal latitude
\* keep the order they have in the list.
SortedByLat(g) ==
    IF g = << >> THEN << >>
    ELSE LET rest == SortedByLat(SubSeq(g, 1, Len(g) - 1))
             x == g[Len(g)]
             k == Cardinality({j \in 1..Len(rest) : rest[j].lat <= x.lat})
         IN  SubSeq(rest, 1, k) \o <<x>> \o SubSeq(rest, k + 1, Len(rest))

\* The front appended for a pair, with gradient = temp_diff / sqrt(dist_sq).
Front(p1, p2, temp_diff, dist_sq) ==
    [type |-> IF p2.temperature < p1.temperature THEN "cold" ELSE "warm",
     lat |-> p1.lat + p2.lat,
     lon |-> p1.lon + p2.lon,
     color |-> IF p2.temperature < p1.temperature THEN "#0000FF" ELSE "#FF0000",
     symbol |-> IF p2.temperature < p1.temperature THEN "down" ELSE "up",
     gradient |-> [temp_diff |-> temp_diff, dist_sq |-> dist_sq],
     temp_diff |-> temp_diff]

\* Mutant of PairFront: a gradient of exactly 1.5 is a front.
PairFront_Inclusive(p1, p2) ==
    LET temp_diff == Abs(p2.temperature - p1.temperature)
        dist_sq == (p2.lat - p1.lat) * (p2.lat - p1.lat)
                       + (p2.lon - p1.lon) * (p2.lon - p1.lon)
    IN  IF dist_sq > 0
        THEN IF 4 * temp_diff * temp_diff >= 9 * dist_sq
             THEN <<Front(p1, p2, temp_diff, dist_sq)>>
             ELSE << >>
        ELSE << >>

\* The body of the loop over adjacent pairs.  gradient > 1.5 is, for the
\* non-negative temp_diff and distance, 4 temp_diff^2 > 9 distance^2.
PairFront(p1, p2) ==
    LET temp_diff == Abs(p2.temperature - p1.temperature)
        dist_sq == (p2.lat - p1.lat) * (p2.lat - p1.lat)
                       + (p2.lon - p1.lon) * (p2.lon - p1.lon)
    IN  IF dist_sq > 0
        THEN IF 4 * temp_diff * temp_diff > 9 * dist_sq
             THEN <<Front(p1, p2, temp_diff, dist_sq)>>
             ELSE << >>
        ELSE << >>

RECURSIVE FrontsFrom(_, _)
\* The loop 'for i in range(len(sorted_data) - 1)' from position i on.
FrontsFrom(sd, i) ==
    IF i > Len(sd) - 1 THEN << >>
    ELSE PairFront(sd[i], sd[i + 1]) \o FrontsFrom(sd, i + 1)

\* detect_fronts.
DetectFronts(g) == FrontsFrom(SortedByLat(g), 1)

RECURSIVE SumOf(_)
SumOf(values) ==
    IF values = << >> THEN 0 ELSE values[1] + SumOf(Tail(values))

\* np.mean of a list: sum / count, NaN (0 / 0) for the empty list.
Mean(values) == [num |-> SumOf(values), den |-> Len(values)]

\* Mutant of CalculateFrontVelocity: the mean wind speed is reported unhalved.
CalculateFrontVelocity_FullSpeed(g) ==
    LET avg_pressure_trend == Mean([i \in 1..Len(g) |-> g[i].pressure_trend])
        avg_wind_speed == Mean([i \in 1..Len(g) |-> g[i].wind_speed])
        avg_wind_dir == Mean([i \in 1..Len(g) |-> g[i].wind_direction])
    IN  [velocity_ms |-> avg_wind_speed,
         direction_deg |-> avg_wind_dir,
         pressure_trend |-> avg_pressure_trend]

\* calculate_front_velocity: velocity_ms is the mean wind speed times 0.5.
CalculateFrontVelocity(g) ==
    LET avg_pressure_trend == Mean([i \in 1..Len(g) |-> g[i].pressure_trend])
        avg_wind_speed == Mean([i \in 1..Len(g) |-> g[i].wind_speed])
        avg_wind_dir == Mean([i \in 1..Len(g) |-> g[i].wind_direction])
    IN  [velocity_ms |-> [num |-> avg_wind_speed.num, den |-> 2 * avg_wind_speed.den],
         direction_deg |-> avg_wind_dir,
         pressure_trend |-> avg_pressure_trend]

\* The call systems = tracker.detect_pressure_systems(grid_data).
CallDetectPressureSystems ==
    /\ pc = "detect_pressure_systems"
    /\ systems' = DetectPressureSystems(grid)
    /\ pc' = "systems_done"
    /\ UNCHANGED analyzervars
    /\ UNCHANGED <<grid, sorted_data, fronts, motion>>

\* The call fronts = tracker.detect_fronts(grid_data).
CallDetectFronts ==
    /\ pc = "detect_fronts"
    /\ sorted_data' = SortedByLat(grid)
    /\ fronts' = DetectFronts(grid)
    /\ pc' = "fronts_done"
    /\ UNCHANGED analyzervars
    /\ UNCHANGED <<grid, systems, motion>>

\* The call movement = tracker.calculate_front_velocity(grid_data).
CallCalculateFrontVelocity ==
    /\ pc = "calculate_front_velocity"
    /\ motion' = Some(CalculateFrontVelocity(grid))
    /\ pc' = "velocity_done"
    /\ UNCHANGED analyzervars
    /\ UNCHANGED <<grid, systems, sorted_data, fronts>>

-----------------------------------------------------------------------------
(* Inputs of analyze_forecast and get_overall_status.                      *)

\* Longest forecast, in hours.
MaxHours == 4
\* Longest event list given to get_overall_status.
MaxEvents == 3

\* One sample of each kind of hour; 8 m/s and 30 m/s are the speeds of the
\* spec's [ok, bad, bad, ok] forecast.
KindSample(kind, ts) ==
    CASE kind = "normal"      -> MkSample(ts, 150, 180, 80, 60)
      [] kind = "cut_out"     -> MkSample(ts, 300, 350, 80, 60)
      [] kind = "sub_optimal" -> MkSample(ts, 80, 100, 80, 60)
      [] kind = "cut_in"      -> MkSample(ts, 20, 30, 80, 60)
      [] kind = "icing"       -> MkSample(ts, 150, 180, -10, 85)

HourKinds == {"normal", "cut_out", "sub_optimal", "icing"}
\* Hours between one forecast sample and the next (0: a repeated timestamp).
HourGaps == {0, 1}
NowTimes == {0, 1, 2}

RawForecasts == UNION {[1..n -> HourKinds \X HourGaps] : n \in 0..MaxHours}

RECURSIVE TimestampAt(_, _)
TimestampAt(raw, i) == IF i = 0 THEN 0 ELSE TimestampAt(raw, i - 1) + raw[i][2]

BuildForecast(raw) ==
    [i \in 1..Len(raw) |-> KindSample(raw[i][1], TimestampAt(raw, i))]

CurrentKinds == {"normal", "cut_out", "cut_in", "icing"}
EtaTimes == {0, 11, 12, 23, 24}

\* An event as analyze_forecast builds it for a one-hour run of the kind at time t.
EventOf(kind, t) ==
    LET issue == Classify(KindSample(kind, t)).issues[1]
    IN  ClosedEvent(issue.type, issue.severity, issue.description, t, t + 1, 0)

EventInputs ==
    {EventOf(kind, t) : kind \in {"cut_out", "icing"}, t \in EtaTimes}
        \cup {EventOf("cut_in", 0)}

EventLists == UNION {[1..n -> EventInputs] : n \in 0..MaxEvents}

-----------------------------------------------------------------------------
(* Inputs of the WeatherFrontTracker routines.                             *)

\* Longest grid given to detect_pressure_systems.
MaxGridPoints == 9
\* Longest grid given to detect_fronts.
MaxFrontPoints == 3
\* Longest grid given to calculate_front_velocity.
MaxMotionPoints == 2

\* A point that carries a pressure, for detect_pressure_systems.
PressurePoint(lat, lon, temperature, pressure) ==
    GridPoint(lat, lon, temperature, pressure, 0, 0, 0, << >>)

\* Positions of a block grid: 3 x 3 points one degree apart, so that the centre
\* has 8 neighbours and opposite sides are exactly 2 degrees apart; further
\* points go on in a row to the east of it.
BlockPos(i) ==
    IF i <= 9 THEN << (i - 1) \div 3, (i - 1) % 3 >> ELSE << 1, i - 7 >>

BlockPressures == {1005, 1015, 1020}

\* The block grid of n points with the pressures pr.
BlockGrid(n, pr) ==
    [i \in 1..n |-> PressurePoint(BlockPos(i)[1], BlockPos(i)[2], 10, pr[i])]

ClusterPressures == {1009, 1010, 1015, 1016}

\* Nine points: a row a, b, c one degree apart, d two degrees north of b, e at
\* the place of a (the same dict as a only when its pressure, temperature,
\* weather code and hourly forecast are all those of a), and four points far
\* from every other.
ClusterGrid(pr, te, wc, hp) ==
    <<PressurePoint(0, 0, 10, pr[1]), PressurePoint(0, 1, 10, pr[2]),
      PressurePoint(0, 2, 10, pr[3]), PressurePoint(2, 1, 10, pr[4]),
      GridPoint(0, 0, te, pr[5], 0, 0, wc, hp),
      PressurePoint(10, 10, 10, 1020), PressurePoint(20, 20, 10, 1005),
      PressurePoint(30, 30, 10, 1020), PressurePoint(40, 40, 10, 1005)>>

ClusterTemps == {10, 11}
\* Weather codes and hourly pressure lists of e; pressure_trend is 0 for a list
\* of at most 3 values.
ClusterCodes == {0, 3}
ClusterHourly == {<< >>, <<1016>>}

FrontLats == {0, 1, 2}
FrontLons == {0, 1}
FrontTemps == {10, 11, 12, 13}

FrontPoints ==
    {GridPoint(lat, lon, te, 1012, 0, 0, 0, << >>) :
        lat \in FrontLats, lon \in FrontLons, te \in FrontTemps}

FrontGrids == UNION {[1..n -> FrontPoints] : n \in 0..MaxFrontPoints}

MotionSpeeds == {0, 4, 10}
MotionDirections == {10, 180, 350}
\* Hourly pressure lists of a point at 1012 hPa: no value and three values
\* (trend 0), four values (trend -2 and trend 1).
MotionHourly ==
    {<< >>, <<1010, 1010, 1010>>, <<1012, 1012, 1012, 1010>>, <<1012, 1012, 1012, 1013>>}

MotionPoints ==
    {GridPoint(0, 0, 10, 1012, ws, wd, 0, hp) :
        hp \in MotionHourly, ws \in MotionSpeeds, wd \in MotionDirections}

MotionGrids == UNION {[1..n -> MotionPoints] : n \in 0..MaxMotionPoints}

-----------------------------------------------------------------------------
(* Specifications: one per routine, its inputs drawn in the initial state. *)

\* No WeatherFrontTracker routine has been called.
GridIdle ==
    /\ grid = << >>
    /\ systems = << >>
    /\ sorted_data = << >>
    /\ fronts = << >>
    /\ motion = None

InitClassify ==
    /\ pc = "classify"
    /\ weather \in Samples
    /\ status = None
    /\ forecast = << >>
    /\ current_time = 0
    /\ idx = 1
    /\ in_event = FALSE
    /\ event_start = None
    /\ event_type = None
    /\ event_severity = None
    /\ event_description = None
    /\ events = << >>
    /\ ev_idx = 1
    /\ overall = None
    /\ first_overall = None
    /\ GridIdle

NextClassify == AnalyzeCurrentConditions

SpecClassify == InitClassify /\ [][NextClassify]_vars

InitForecast ==
    /\ pc = "forecast"
    /\ weather = None
    /\ status = None
    /\ \E raw \in RawForecasts : forecast = BuildForecast(raw)
    /\ current_time \in NowTimes
    /\ idx = 1
    /\ in_event = FALSE
    /\ event_start = None
    /\ event_type = None
    /\ event_severity = None
    /\ event_description = None
    /\ events = << >>
    /\ ev_idx = 1
    /\ overall = None
    /\ first_overall = None
    /\ GridIdle

NextForecast ==
    \/ FcStartEvent
    \/ FcEndEvent
    \/ FcContinue
    \/ FcReturn

SpecForecast == InitForecast /\ [][NextForecast]_vars

InitOverall ==
    /\ pc = "overall"
    /\ \E kind \in CurrentKinds :
          /\ weather = KindSample(kind, 0)
          /\ status = Some(Classify(KindSample(kind, 0)))
    /\ forecast = << >>
    /\ current_time = 0
    /\ idx = 1
    /\ in_event = FALSE
    /\ event_start = None
    /\ event_type = None
    /\ event_severity = None
    /\ event_description = None
    /\ events \in EventLists
    /\ ev_idx = 1
    /\ overall = None
    /\ first_overall = None
    /\ GridIdle

NextOverall ==
    \/ OvInit
    \/ OvCritical
    \/ OvMedium
    \/ OvSkip
    \/ OvReturn

SpecOverall == InitOverall /\ [][NextOverall]_vars

\* get_overall_status called twice with the same arguments.
NextOverallTwice ==
    \/ NextOverall
    \/ OvCallAgain

SpecOverallTwice == InitOverall /\ [][NextOverallTwice]_vars

\* Hours between one sample and the next in a forecast given to the pipeline,
\* and the reference times: a run can start 23, 24 or 25 hours after now.
PipelineGaps == {1, 24}
PipelineNows == {0, 1}

\* The forecasts main analyses: a farm carries the key 'forecast' only when the
\* fetched list is not empty, and main skips a farm without the key.
PipelineForecasts == UNION {[1..n -> HourKinds \X PipelineGaps] : n \in 1..MaxHours}

\* The pipeline of main for one farm that has both 'current' and 'forecast':
\* analyze_current_conditions on the current sample, analyze_forecast on the
\* forecast, get_overall_status on both.
InitPipeline ==
    /\ pc = "classify"
    /\ \E kind \in CurrentKinds : weather = KindSample(kind, 0)
    /\ status = None
    /\ \E raw \in PipelineForecasts : forecast = BuildForecast(raw)
    /\ current_time \in PipelineNows
    /\ idx = 1
    /\ in_event = FALSE
    /\ event_start = None
    /\ event_type = None
    /\ event_severity = None
    /\ event_description = None
    /\ events = << >>
    /\ ev_idx = 1
    /\ overall = None
    /\ first_overall = None
    /\ GridIdle

NextPipeline ==
    \/ NextClassify
    \/ NextForecast
    \/ NextOverall

SpecPipeline == InitPipeline /\ [][NextPipeline]_vars

\* No WindImpactAnalyzer routine has been called.
AnalyzerIdle ==
    /\ weather = None
    /\ status = None
    /\ forecast = << >>
    /\ current_time = 0
    /\ idx = 1
    /\ in_event = FALSE
    /\ event_start = None
    /\ event_type = None
    /\ event_severity = None
    /\ event_description = None
    /\ events = << >>
    /\ ev_idx = 1
    /\ overall = None
    /\ first_overall = None

InitSystems ==
    /\ pc = "detect_pressure_systems"
    /\ \/ \E n \in 0..MaxGridPoints : \E pr \in [1..n -> BlockPressures] :
              grid = BlockGrid(n, pr)
       \/ \E pr \in [1..5 -> ClusterPressures] : \E te \in ClusterTemps :
              \E wc \in ClusterCodes : \E hp \in ClusterHourly :
                  grid = ClusterGrid(pr, te, wc, hp)
    /\ systems = << >>
    /\ sorted_data = << >>
    /\ fronts = << >>
    /\ motion = None
    /\ AnalyzerIdle

NextSystems == CallDetectPressureSystems

SpecSystems == InitSystems /\ [][NextSystems]_vars

InitFronts ==
    /\ pc = "detect_fronts"
    /\ grid \in FrontGrids
    /\ systems = << >>
    /\ sorted_data = << >>
    /\ fronts = << >>
    /\ motion = None
    /\ AnalyzerIdle

NextFronts == CallDetectFronts

SpecFronts == InitFronts /\ [][NextFronts]_vars

InitMotion ==
    /\ pc = "calculate_front_velocity"
    /\ grid \in MotionGrids
    /\ systems = << >>
    /\ sorted_data = << >>
    /\ fronts = << >>
    /\ motion = None
    /\ AnalyzerIdle

NextMotion == CallCalculateFrontVelocity

SpecMotion == InitMotion /\ [][NextMotion]_vars

-----------------------------------------------------------------------------
(* Vocabulary of the properties.                                           *)

SeverityRank(sev) ==
    CASE sev = "low" -> 1 [] sev = "medium" -> 2 [] sev = "critical" -> 3

ColorRank(color) ==
    CASE color = "green" -> 0 [] color = "yellow" -> 1
      [] color = "orange" -> 2 [] color = "red" -> 3

\* Rank of the worst issue of a status, 0 when it has none.
WorstRank(st) ==
    IF st.issues = << >> THEN 0
    ELSE CHOOSE r \in 1..3 :
            /\ \E i \in 1..Len(st.issues) : SeverityRank(st.issues[i].severity) = r
            /\ \A i \in 1..Len(st.issues) : SeverityRank(st.issues[i].severity) <= r

InCutOut(w) == w.wind_speed_ms >= CUT_OUT_SPEED \/ w.wind_gust_ms >= CUT_OUT_SPEED
IcingCondition(w) == w.temperature_c <= ICING_TEMP /\ w.humidity_pct >= ICING_HUMIDITY

MinOf(S) == CHOOSE x \in S : \A y \in S : x <= y
MaxOf(S) == CHOOSE x \in S : \A y \in S : x >= y

\* Forecast hour i is impacted: its classification has an issue.
Impacted(i) == Classify(forecast[i]).issues # << >>
\* First hours of the maximal runs of impacted hours.
RunStarts ==
    {i \in 1..Len(forecast) : Impacted(i) /\ (i = 1 \/ ~Impacted(i - 1))}
NthRunStart(k) ==
    CHOOSE i \in RunStarts : Cardinality({j \in RunStarts : j <= i}) = k
\* Clear hours after hour i; the first of them ends the run that holds i.
ClearAfter(i) == {j \in (i + 1)..Len(forecast) : ~Impacted(j)}
StrictlyIncreasing ==
    \A i \in 1..(Len(forecast) - 1) : forecast[i].timestamp < forecast[i + 1].timestamp
Hourly ==
    \A i \in 1..(Len(forecast) - 1) : forecast[i + 1].timestamp = forecast[i].timestamp + 1

\* Events that match the critical test, and the medium test, of get_overall_status.
CritIdx ==
    {i \in 1..Len(events) : events[i].severity = "critical" /\ events[i].eta_hours < 24}
MedIdx ==
    {i \in 1..Len(events) : events[i].severity = "medium" /\ events[i].eta_hours < 12}

-----------------------------------------------------------------------------
(* Properties of analyze_current_conditions, checked under SpecClassify.   *)

\* C1: a sample whose sustained speed or gust is at or above cut-out is
\* classified shutdown, capacity factor 0, red, not operational, with a first
\* issue cut_out / critical, whatever the temperature and humidity; no cut_in
\* or sub_optimal issue is raised.
C1_CutOutShutsDown ==
    (status # None /\ InCutOut(weather)) =>
        LET st == status[1]
        IN  /\ st.status = "shutdown"
            /\ st.capacity_factor = 0
            /\ st.color = "red"
            /\ st.operational = FALSE
            /\ Len(st.issues) >= 1
            /\ st.issues[1].type = "cut_out"
            /\ st.issues[1].severity = "critical"
            /\ \A i \in 1..Len(st.issues) :
                   st.issues[i].type \notin {"cut_in", "sub_optimal"}

\* C1 witness: a gust at cut-out over a sustained speed below cut-in, in icing
\* weather, has been classified shutdown.
C1_Witness ==
    /\ status # None
    /\ weather.wind_gust_ms >= CUT_OUT_SPEED
    /\ weather.wind_speed_ms < CUT_IN_SPEED
    /\ IcingCondition(weather)
    /\ status[1].status = "shutdown"

\* C2: a sample outside cut-out in icing weather is classified orange and
\* icing_risk, also when the wind branch has set yellow.
C2_IcingEscalatesToOrange ==
    (status # None /\ ~InCutOut(weather) /\ IcingCondition(weather)) =>
        /\ status[1].color = "orange"
        /\ status[1].status = "icing_risk"

\* C8: the colour is a monotone function of the worst issue severity: the
\* classified sample and any other sample with the same worst severity have the
\* same colour, and a sample with a worse worst issue has no lower colour.
C8_ColorMonotoneInWorstIssue ==
    status # None =>
        \A other \in Samples :
            LET a == status[1]
                b == Classify(other)
            IN  /\ WorstRank(a) = WorstRank(b) => a.color = b.color
                /\ WorstRank(a) < WorstRank(b) => ColorRank(a.color) <= ColorRank(b.color)

-----------------------------------------------------------------------------
(* Properties of analyze_forecast, checked under SpecForecast.             *)

\* The spec's forecast [ok, bad, bad, ok]: hourly, 8 m/s, 30 m/s, 30 m/s, 8 m/s.
IsOkBadBadOk ==
    /\ Len(forecast) = 4
    /\ Hourly
    /\ forecast[1].wind_speed_ms = 80
    /\ forecast[2].wind_speed_ms = 300
    /\ forecast[3].wind_speed_ms = 300
    /\ forecast[4].wind_speed_ms = 80
    /\ \A i \in 1..4 : ~IcingCondition(forecast[i])

\* C3 as stated: [ok, bad, bad, ok] returns one event that starts at the first
\* bad hour, ends at the timestamp of the ok hour after them and lasts 1.0 hour.
C3_Original ==
    (pc = "overall" /\ IsOkBadBadOk) =>
        /\ Len(events) = 1
        /\ events[1].start_time = forecast[2].timestamp
        /\ events[1].end_time = Some(forecast[4].timestamp)
        /\ events[1].duration_hours = Some(1)

\* C3 as amended: [ok, bad, bad, ok] returns one event; an 8 m/s hour is below
\* rated speed and carries a sub_optimal issue, so the event starts at the first
\* hour, has type sub_optimal and severity low, and is open (end_time and
\* duration_hours are null).
C3_OneOpenEventFromFirstHour ==
    (pc = "overall" /\ IsOkBadBadOk) =>
        /\ Len(events) = 1
        /\ events[1].start_time = forecast[1].timestamp
        /\ events[1].type = "sub_optimal"
        /\ events[1].severity = "low"
        /\ events[1].end_time = None
        /\ events[1].duration_hours = None

\* C3 witness: analyze_forecast has returned on the forecast [ok, bad, bad, ok].
C3_Witness ==
    /\ pc = "overall"
    /\ IsOkBadBadOk
    /\ Len(events) = 1

\* C4: one event per maximal run of impacted hours, in order; an event starts
\* at the timestamp of the first hour of its run and, when a clear hour follows
\* the run, ends at that hour's timestamp with duration end_time - start_time.
C4_OneEventPerRun ==
    pc = "overall" =>
        /\ Len(events) = Cardinality(RunStarts)
        /\ \A k \in 1..Len(events) :
               LET i == NthRunStart(k)
               IN  /\ events[k].start_time = forecast[i].timestamp
                   /\ ClearAfter(i) # {} =>
                          LET j == MinOf(ClearAfter(i))
                          IN  /\ events[k].end_time = Some(forecast[j].timestamp)
                              /\ events[k].duration_hours =
                                     Some(forecast[j].timestamp - forecast[i].timestamp)

\* C4 witness: a forecast with two runs, the first of two hours and closed by a
\* clear hour one or more hours after it began, has been scanned.
C4_Witness ==
    /\ pc = "overall"
    /\ Len(events) = 2
    /\ Len(forecast) = 4
    /\ Impacted(1) /\ Impacted(2) /\ ~Impacted(3) /\ Impacted(4)
    /\ events[1].duration_hours # None
    /\ events[1].duration_hours[1] > 0

\* C5: inside an event the accumulated start, type, severity and description
\* are those of the first issue of the first hour of the run, and so are those
\* of every event returned, even when later hours of the run differ.
C5_AccumulatorKeepsFirstIssue ==
    /\ (pc = "forecast" /\ in_event) =>
           LET i == MaxOf({j \in RunStarts : j < idx})
               first == Classify(forecast[i]).issues[1]
           IN  /\ event_start = Some(forecast[i].timestamp)
               /\ event_type = Some(first.type)
               /\ event_severity = Some(first.severity)
               /\ event_description = Some(first.description)
    /\ pc = "overall" =>
           \A k \in 1..Len(events) :
               k <= Cardinality(RunStarts) =>
                   LET first == Classify(forecast[NthRunStart(k)]).issues[1]
                   IN  /\ events[k].type = first.type
                       /\ events[k].severity = first.severity
                       /\ events[k].description = first.description

\* C5 witness: a run that begins with a sub-optimal hour and goes on with a
\* cut-out hour has been returned as a sub_optimal event of severity low.
C5_Witness ==
    /\ pc = "overall"
    /\ Len(forecast) >= 3
    /\ forecast[1].wind_speed_ms = 80
    /\ forecast[2].wind_speed_ms = 300
    /\ ~Impacted(3)
    /\ events[1].type = "sub_optimal"
    /\ events[1].severity = "low"

\* C10: on a forecast with strictly increasing timestamps the events are in
\* strictly increasing order of start_time, and each event but the last has an
\* end_time that is not later than the start_time of the next.
C10_EventsOrderedDisjoint ==
    (pc = "overall" /\ StrictlyIncreasing) =>
        \A k \in 1..(Len(events) - 1) :
            /\ events[k].start_time < events[k + 1].start_time
            /\ events[k].end_time # None
            /\ events[k].end_time[1] <= events[k + 1].start_time

\* C10 witness: a forecast with strictly increasing timestamps has yielded two
\* events.
C10_Witness ==
    /\ pc = "overall"
    /\ StrictlyIncreasing
    /\ Len(events) >= 2

-----------------------------------------------------------------------------
(* Properties of get_overall_status, checked under SpecOverall.            *)

\* C6: if some event is critical with eta_hours < 24, the result is red with
\* the issue built from the first such event, and the scan stopped there, so no
\* later event had any effect.
C6_FirstCriticalWins ==
    (pc = "done" /\ CritIdx # {}) =>
        /\ overall[1].priority_color = "red"
        /\ overall[1].priority_issue = Some(SynthIssue(events[MinOf(CritIdx)]))
        /\ ev_idx = MinOf(CritIdx)

\* C6 witness: the call has returned on a list whose first critical match is
\* followed by a different critical match and by a medium match.
C6_Witness ==
    /\ pc = "done"
    /\ CritIdx # {}
    /\ \E j \in CritIdx : j > MinOf(CritIdx) /\ events[j] # events[MinOf(CritIdx)]
    /\ \E j \in MedIdx : j > MinOf(CritIdx)

\* C7: with no critical match, a current colour other than red and at least
\* one medium event with eta_hours < 12, the result is orange with the issue
\* built from the last such medium event.
C7_LastMediumWins ==
    (pc = "done" /\ CritIdx = {} /\ status[1].color # "red" /\ MedIdx # {}) =>
        /\ overall[1].priority_color = "orange"
        /\ overall[1].priority_issue = Some(SynthIssue(events[MaxOf(MedIdx)]))

\* C7 witness: the call has returned on a list with no critical match and two
\* different medium matches, for a current status that is not red.
C7_Witness ==
    /\ pc = "done"
    /\ CritIdx = {}
    /\ status[1].color # "red"
    /\ MedIdx # {}
    /\ events[MinOf(MedIdx)] # events[MaxOf(MedIdx)]

\* C9: priority_color is never below the current colour in the order
\* green < yellow < orange < red; a red current status stays red.
C9_NeverLowersColor ==
    overall # None =>
        /\ ColorRank(overall[1].priority_color) >= ColorRank(status[1].color)
        /\ status[1].color = "red" => overall[1].priority_color = "red"

\* C9 witness: the call has returned for a red current status on a list with a
\* medium match and no critical match.
C9_Witness ==
    /\ pc = "done"
    /\ status[1].color = "red"
    /\ CritIdx = {}
    /\ MedIdx # {}
    /\ overall[1].priority_color = "red"

-----------------------------------------------------------------------------
(* Further properties of analyze_forecast, checked under SpecForecast.     *)

\* C11: when the last forecast hour is impacted the last event returned is open
\* (end_time and duration_hours null); a non-empty forecast whose hours are all
\* impacted returns exactly one event, and it is open; no event but the last is
\* open.
C11_OnlyLastEventOpen ==
    pc = "overall" =>
        /\ (Len(forecast) >= 1 /\ Impacted(Len(forecast))) =>
               /\ Len(events) >= 1
               /\ events[Len(events)].end_time = None
               /\ events[Len(events)].duration_hours = None
        /\ (Len(forecast) >= 1 /\ \A i \in 1..Len(forecast) : Impacted(i)) =>
               /\ Len(events) = 1
               /\ events[1].end_time = None
        /\ \A k \in 1..(Len(events) - 1) :
               /\ events[k].end_time # None
               /\ events[k].duration_hours # None

\* C11 witness: a forecast that ends inside its second event has been scanned.
C11_Witness ==
    /\ pc = "overall"
    /\ in_event
    /\ Len(events) = 2
    /\ events[1].end_time # None
    /\ events[2].end_time = None

\* C12: every event has eta_hours = max(0, start_time - now), so never negative,
\* and status current exactly when eta_hours is 0, that is when start_time <= now,
\* and upcoming otherwise.
C12_EtaFlooredAtZero ==
    \A k \in 1..Len(events) :
        LET e == events[k]
        IN  /\ e.eta_hours = IF e.start_time - current_time > 0
                             THEN e.start_time - current_time ELSE 0
            /\ e.eta_hours >= 0
            /\ e.status \in {"current", "upcoming"}
            /\ e.status = "current" <=> e.eta_hours = 0
            /\ e.status = "current" <=> e.start_time <= current_time

\* C12 witness: an event that began before now and an event that begins after
\* now have been returned, one closed and one open.
C12_Witness ==
    /\ pc = "overall"
    /\ Len(events) = 2
    /\ events[1].start_time < current_time
    /\ events[1].status = "current"
    /\ events[2].start_time > current_time
    /\ events[2].status = "upcoming"
    /\ events[2].end_time = None

-----------------------------------------------------------------------------
(* Further properties of analyze_current_conditions, under SpecClassify.   *)

InSubOptimalBand(w) ==
    /\ CUT_IN_SPEED <= w.wind_speed_ms
    /\ w.wind_speed_ms < RATED_SPEED
    /\ w.wind_gust_ms < CUT_OUT_SPEED

\* C19: for a speed s in [3.5, 12.5) with gust below cut-out the capacity factor
\* is ((s - 3.5) / 9.0)^3, that is (10 s - 35)^3 over 90^3: 0 at 3.5, in [0, 1),
\* strictly increasing in s; the status is sub_optimal and the first issue is
\* sub_optimal / low.
C19_CubicCapacityFactor ==
    (status # None /\ InSubOptimalBand(weather)) =>
        LET st == status[1]
            d == weather.wind_speed_ms - 35
        IN  /\ st.capacity_factor = d * d * d
            /\ CapDen = 90 * 90 * 90
            /\ st.capacity_factor >= 0
            /\ st.capacity_factor < CapDen
            /\ weather.wind_speed_ms = 35 => st.capacity_factor = 0
            /\ st.status = "sub_optimal"
            /\ Len(st.issues) >= 1
            /\ st.issues[1].type = "sub_optimal"
            /\ st.issues[1].severity = "low"
            /\ \A other \in Samples :
                   (InSubOptimalBand(other)
                        /\ other.wind_speed_ms < weather.wind_speed_ms) =>
                       Classify(other).capacity_factor < st.capacity_factor

\* C19 witness: a sample of 8.0 m/s has been classified with capacity factor 1/8.
C19_Witness ==
    /\ status # None
    /\ weather.wind_speed_ms = 80
    /\ weather.wind_gust_ms < CUT_OUT_SPEED
    /\ 8 * status[1].capacity_factor = CapDen

\* C20: a speed on a threshold belongs to the higher band.  With gust below
\* cut-out and no icing: 3.5 is sub_optimal with capacity factor 0, every speed
\* in [12.5, 25) is normal, green, capacity factor 1.0, without issue; and 25.0
\* is shutdown.
C20_ThresholdInHigherBand ==
    status # None =>
        LET st == status[1]
            quiet == weather.wind_gust_ms < 250 /\ ~IcingCondition(weather)
        IN  /\ (quiet /\ weather.wind_speed_ms = 35) =>
                   /\ st.status = "sub_optimal"
                   /\ st.capacity_factor = 0
            /\ (quiet /\ weather.wind_speed_ms >= 125 /\ weather.wind_speed_ms < 250) =>
                   /\ st.status = "normal"
                   /\ st.color = "green"
                   /\ st.capacity_factor = CapDen
                   /\ st.issues = << >>
            /\ weather.wind_speed_ms = 250 => st.status = "shutdown"

\* C20 witness: a sample of exactly 3.5 m/s, with gust below cut-out and no
\* icing, has been classified sub_optimal.
C20_Witness ==
    /\ status # None
    /\ weather.wind_gust_ms < 250
    /\ ~IcingCondition(weather)
    /\ weather.wind_speed_ms = 35
    /\ status[1].status = "sub_optimal"

-----------------------------------------------------------------------------
(* Vocabulary of the properties of the WeatherFrontTracker routines.       *)

RangeOf(seq) == {seq[i] : i \in 1..Len(seq)}
CountIn(seq, x) == Cardinality({i \in 1..Len(seq) : seq[i] = x})
PairwiseDistinct(seq) ==
    \A i \in 1..Len(seq) : \A j \in 1..Len(seq) : i # j => seq[i] # seq[j]

\* The neighbours of p in the grid g: the other points of g less than 2 degrees
\* from p in latitude and in longitude.
Neighbours(g, p) ==
    {q \in RangeOf(g) : q # p /\ Abs(q.lat - p.lat) < 2 /\ Abs(q.lon - p.lon) < 2}

IsHigh(g, p) ==
    /\ Neighbours(g, p) # {}
    /\ \A q \in Neighbours(g, p) : p.pressure > q.pressure
    /\ p.pressure > 1015

IsLow(g, p) ==
    /\ Neighbours(g, p) # {}
    /\ \A q \in Neighbours(g, p) : p.pressure < q.pressure
    /\ p.pressure < 1010

\* The list of systems reports p with the given type.
Reported(list, type, p) ==
    \E k \in 1..Len(list) :
        /\ list[k].type = type
        /\ list[k].lat = p.lat
        /\ list[k].lon = p.lon
        /\ list[k].pressure = p.pressure

\* The same list in another order: two adjacent positions swapped (the swaps
\* that generate every permutation), the list reversed, the list rotated by one.
Swapped(seq, i, j) ==
    [k \in 1..Len(seq) |-> IF k = i THEN seq[j] ELSE IF k = j THEN seq[i] ELSE seq[k]]
Reorderings(seq) ==
    {Swapped(seq, i, i + 1) : i \in 1..(Len(seq) - 1)}
        \cup {[k \in 1..Len(seq) |-> seq[Len(seq) + 1 - k]]}
        \cup {[k \in 1..Len(seq) |-> seq[(k % Len(seq)) + 1]]}

SystemKeys(list) ==
    {<<list[k].type, list[k].lat, list[k].lon, list[k].pressure>> : k \in 1..Len(list)}
FrontKeys(list) ==
    {<<list[k].type, list[k].lat, list[k].lon, list[k].gradient, list[k].temp_diff>> :
        k \in 1..Len(list)}

\* Adjacent pair i of sorted_data is at a distance above 0 with a gradient
\* above 1.5 degC per degree: |dT| / sqrt(dlat^2 + dlon^2) > 3/2.
SquaredDistance(p1, p2) ==
    (p2.lat - p1.lat) * (p2.lat - p1.lat) + (p2.lon - p1.lon) * (p2.lon - p1.lon)
SteepPair(i) ==
    LET p1 == sorted_data[i]
        p2 == sorted_data[i + 1]
        dT == Abs(p2.temperature - p1.temperature)
    IN  /\ SquaredDistance(p1, p2) > 0
        /\ 4 * dT * dT > 9 * SquaredDistance(p1, p2)
SteepPairs == {i \in 1..(Len(sorted_data) - 1) : SteepPair(i)}
NthSteepPair(k) ==
    CHOOSE i \in SteepPairs : Cardinality({j \in SteepPairs : j <= i}) = k

-----------------------------------------------------------------------------
(* Properties of detect_pressure_systems, checked under SpecSystems.       *)

\* C13: on a grid of at least 9 points a point is reported high exactly when it
\* has a neighbour, its pressure is above that of every neighbour and above
\* 1015 hPa, and low exactly when it has a neighbour, its pressure is below that
\* of every neighbour and below 1010 hPa; a point that ties with a neighbour is
\* reported as neither.  A neighbour is another point less than 2 degrees away in
\* latitude and in longitude.
C13_HighLowExactlyLocalExtrema ==
    (pc = "systems_done" /\ Len(grid) >= 9) =>
        \A p \in RangeOf(grid) :
            /\ Reported(systems, "high", p) <=> IsHigh(grid, p)
            /\ Reported(systems, "low", p) <=> IsLow(grid, p)
            /\ (\E q \in Neighbours(grid, p) : q.pressure = p.pressure) =>
                   /\ ~Reported(systems, "high", p)
                   /\ ~Reported(systems, "low", p)

\* C13 witness: a point of 1020 hPa among 8 neighbours of lower pressure has
\* been reported as a high.
C13_Witness ==
    /\ pc = "systems_done"
    /\ Len(grid) = 9
    /\ grid[5].pressure = 1020
    /\ Cardinality(Neighbours(grid, grid[5])) = 8
    /\ \A q \in Neighbours(grid, grid[5]) : q.pressure < 1020
    /\ Reported(systems, "high", grid[5])

\* C16: for a grid of pairwise distinct points, the set of systems (type,
\* location, pressure) is the same when the points are given in another order.
C16_SystemsIndependentOfOrder ==
    (pc = "systems_done" /\ PairwiseDistinct(grid)) =>
        \A other \in Reorderings(grid) :
            SystemKeys(DetectPressureSystems(other)) = SystemKeys(systems)

\* C16 witness: a grid of pairwise distinct points with a high and a low has
\* been analysed.
C16_Witness ==
    /\ pc = "systems_done"
    /\ PairwiseDistinct(grid)
    /\ \E k \in 1..Len(systems) : systems[k].type = "high"
    /\ \E k \in 1..Len(systems) : systems[k].type = "low"

\* C17: a grid of fewer than 9 points returns no system, also when one of its
\* points is a local extremum beyond the threshold.
C17_FewerThanNineIsEmpty ==
    (pc = "systems_done" /\ Len(grid) < 9) => systems = << >>

\* C17 witness: a grid of 8 points with a point of 1020 hPa above all its
\* neighbours has returned the empty list.
C17_Witness ==
    /\ pc = "systems_done"
    /\ Len(grid) = 8
    /\ \E p \in RangeOf(grid) : IsHigh(grid, p)
    /\ systems = << >>

-----------------------------------------------------------------------------
(* Properties of detect_fronts, checked under SpecFronts.                  *)

\* C14: the points are sorted by latitude ascending and only the pairs adjacent
\* in that order are examined; a pair at distance 0 yields nothing, a pair with
\* gradient above 1.5 yields one front at its midpoint, cold if the second point
\* (of higher latitude) is colder than the first and warm otherwise, a pair with
\* gradient at most 1.5 yields nothing; two points 1 degree apart yield a front
\* with 2 degC of difference and none with 1 degC; a grid of n >= 1 points
\* yields at most n - 1 fronts.
C14_OneFrontPerSteepAdjacentPair ==
    pc = "fronts_done" =>
        /\ Len(sorted_data) = Len(grid)
        /\ \A p \in RangeOf(grid) : CountIn(sorted_data, p) = CountIn(grid, p)
        /\ \A i \in 1..(Len(sorted_data) - 1) : sorted_data[i].lat <= sorted_data[i + 1].lat
        /\ Len(fronts) = Cardinality(SteepPairs)
        /\ Len(grid) >= 1 => Len(fronts) <= Len(grid) - 1
        /\ \A k \in 1..Len(fronts) :
               LET p1 == sorted_data[NthSteepPair(k)]
                   p2 == sorted_data[NthSteepPair(k) + 1]
               IN  /\ fronts[k].type =
                          IF p2.temperature < p1.temperature THEN "cold" ELSE "warm"
                   /\ fronts[k].lat = p1.lat + p2.lat
                   /\ fronts[k].lon = p1.lon + p2.lon
                   /\ fronts[k].temp_diff = Abs(p2.temperature - p1.temperature)
        /\ (Len(grid) = 2 /\ SquaredDistance(grid[1], grid[2]) = 1) =>
               /\ Abs(grid[1].temperature - grid[2].temperature) = 2 => Len(fronts) = 1
               /\ Abs(grid[1].temperature - grid[2].temperature) = 1 => Len(fronts) = 0

\* C14 witness: three points given in descending latitude have yielded a cold
\* front and then a warm front.
C14_Witness ==
    /\ pc = "fronts_done"
    /\ Len(grid) = 3
    /\ grid[1].lat > grid[2].lat
    /\ grid[2].lat > grid[3].lat
    /\ Len(fronts) = 2
    /\ fronts[1].type = "cold"
    /\ fronts[2].type = "warm"

\* C15: the set of fronts (type, midpoint, gradient, temperature difference) is
\* the same when the points are given in another order, also when several
\* points share a latitude.
C15_FrontsIndependentOfOrder ==
    pc = "fronts_done" =>
        \A other \in Reorderings(grid) : FrontKeys(DetectFronts(other)) = FrontKeys(fronts)

-----------------------------------------------------------------------------
(* Degenerate inputs.                                                      *)

\* C18: an empty forecast returns the empty event list; an empty grid returns no
\* system, no front, and a front velocity whose three values are defined (no
\* mean of nothing, no division by zero).
C18_DegenerateInputIsNeutral ==
    /\ (pc = "overall" /\ forecast = << >>) => events = << >>
    /\ (pc = "systems_done" /\ grid = << >>) => systems = << >>
    /\ (pc = "fronts_done" /\ grid = << >>) => fronts = << >>
    /\ (pc = "velocity_done" /\ grid = << >>) =>
           /\ motion # None
           /\ motion[1].velocity_ms.den # 0
           /\ motion[1].direction_deg.den # 0
           /\ motion[1].pressure_trend.den # 0

-----------------------------------------------------------------------------
(* Invariants of the classifier's result, checked under SpecClassify.      *)

IssueTypes(st) == {st.issues[i].type : i \in 1..Len(st.issues)}
WindIssueTypes == {"cut_out", "cut_in", "sub_optimal"}

\* C21: whenever the status returned is shutdown or idle, the capacity factor
\* returned is 0, also when an icing issue is present.
C21_NoCapacityWhenShutdownOrIdle ==
    (status # None /\ status[1].status \in {"shutdown", "idle"}) =>
        status[1].capacity_factor = 0

\* C21 witness: an idle sample with an icing issue has been classified with
\* capacity factor 0.
C21_Witness ==
    /\ status # None
    /\ status[1].status = "idle"
    /\ "icing" \in IssueTypes(status[1])
    /\ status[1].capacity_factor = 0

\* C22: the issue list holds an icing issue, of severity medium, exactly when
\* temperature <= 0.0 and humidity >= 80, whatever the wind branch; there is at
\* most one, it comes after the wind issue when there is one, and a sample in
\* cut-out stays red and shutdown.
C22_IcingIndependentOfWind ==
    status # None =>
        LET st == status[1]
            icing == {i \in 1..Len(st.issues) : st.issues[i].type = "icing"}
            wind == {i \in 1..Len(st.issues) : st.issues[i].type \in WindIssueTypes}
        IN  /\ (icing # {}) <=> (weather.temperature_c <= 0 /\ weather.humidity_pct >= 80)
            /\ Cardinality(icing) <= 1
            /\ \A i \in icing : st.issues[i].severity = "medium"
            /\ \A i \in icing : \A j \in wind : j < i
            /\ InCutOut(weather) => (st.color = "red" /\ st.status = "shutdown")

\* C22 witness: a sample in cut-out under icing conditions has been classified
\* red and shutdown with the issues cut_out, icing in that order.
C22_Witness ==
    /\ status # None
    /\ InCutOut(weather)
    /\ Len(status[1].issues) = 2
    /\ status[1].issues[1].type = "cut_out"
    /\ status[1].issues[2].type = "icing"
    /\ status[1].color = "red"
    /\ status[1].status = "shutdown"

\* C28: the colour is green exactly when the issue list is empty, exactly when
\* the status is normal; operational is false exactly when the status is
\* shutdown.
C28_GreenIffNoIssueIffNormal ==
    status # None =>
        LET st == status[1]
        IN  /\ (st.color = "green") <=> (st.issues = << >>)
            /\ (st.issues = << >>) <=> (st.status = "normal")
            /\ (st.operational = FALSE) <=> (st.status = "shutdown")

\* C28 witness: a sample at rated wind under icing conditions has been classified
\* with one issue, not green, not normal, operational.
C28_Witness ==
    /\ status # None
    /\ status[1].issues # << >>
    /\ IssueTypes(status[1]) = {"icing"}
    /\ status[1].color = "orange"
    /\ status[1].status = "icing_risk"
    /\ status[1].operational

-----------------------------------------------------------------------------
(* Properties of calculate_front_velocity, checked under SpecMotion.       *)

\* The total of f[1] .. f[k].
RECURSIVE TotalUpTo(_, _)
TotalUpTo(f, k) == IF k = 0 THEN 0 ELSE TotalUpTo(f, k - 1) + f[k]

\* The quotient q = [num, den] is the number a / b (b > 0).
QuotientIs(q, a, b) == q.den > 0 /\ q.num * b = a * q.den

\* C23: on a non-empty grid of n points velocity_ms is 0.5 times the sum of the
\* wind speeds over n, pressure_trend is the sum of the pressure trends over n,
\* and direction_deg is the sum of the wind directions over n, with no circular
\* correction: two points with directions 350 and 10 give 180.
C23_HalfMeanSpeedPlainMeans ==
    (pc = "velocity_done" /\ grid # << >>) =>
        LET n == Len(grid)
            speeds == TotalUpTo([i \in 1..n |-> grid[i].wind_speed], n)
            trends == TotalUpTo([i \in 1..n |-> grid[i].pressure_trend], n)
            directions == TotalUpTo([i \in 1..n |-> grid[i].wind_direction], n)
        IN  /\ motion # None
            /\ QuotientIs(motion[1].velocity_ms, speeds, 2 * n)
            /\ QuotientIs(motion[1].pressure_trend, trends, n)
            /\ QuotientIs(motion[1].direction_deg, directions, n)
            /\ (n = 2 /\ {grid[1].wind_direction, grid[2].wind_direction} = {350, 10}) =>
                   QuotientIs(motion[1].direction_deg, 180, 1)

\* C23 witness: two points with directions 350 and 10 and speeds 4 and 10 have
\* given direction 180 and velocity 3.5.
C23_Witness ==
    /\ pc = "velocity_done"
    /\ Len(grid) = 2
    /\ grid[1].wind_direction = 350 /\ grid[2].wind_direction = 10
    /\ grid[1].wind_speed = 4 /\ grid[2].wind_speed = 10
    /\ QuotientIs(motion[1].direction_deg, 180, 1)
    /\ QuotientIs(motion[1].velocity_ms, 7, 2)

-----------------------------------------------------------------------------
(* Further properties of get_overall_status.                               *)

\* C24: no step of get_overall_status changes the current status (its issue
\* list included) or the event list it was given, and a second call with the
\* same arguments returns a value identical to the first.  Checked under
\* SpecOverallTwice.
C24_SameResultNoSideEffect ==
    [][/\ status' = status
       /\ events' = events
       /\ (pc' = "done" /\ first_overall' # None) => overall' = first_overall']_vars

\* C24 witness: the second call has returned, after a first call that
\* escalated a green current status to orange.
C24_Witness ==
    /\ pc = "done"
    /\ first_overall # None
    /\ overall = first_overall
    /\ status[1].color = "green"
    /\ overall[1].priority_color = "orange"

\* The two-phase procedure.  Phase 1: the first critical event with
\* eta_hours < 24, if there is one, gives red and its issue.  Phase 2, when
\* there is none: starting from the current colour and first issue, every
\* medium event with eta_hours < 12 is applied in list order unless the colour
\* is red.
StartPriority ==
    [color |-> status[1].color,
     issue |-> IF status[1].issues # << >> THEN Some(status[1].issues[1]) ELSE None]

RECURSIVE Phase2(_, _)
Phase2(held, i) ==
    IF i > Len(events) THEN held
    ELSE IF i \in MedIdx /\ held.color # "red"
         THEN Phase2([color |-> "orange", issue |-> Some(SynthIssue(events[i]))], i + 1)
         ELSE Phase2(held, i + 1)

TwoPhase ==
    IF CritIdx # {}
    THEN [color |-> "red", issue |-> Some(SynthIssue(events[MinOf(CritIdx)]))]
    ELSE Phase2(StartPriority, 1)

\* C25: the single-pass loop returns the priority_color and the priority_issue
\* of the two-phase procedure; medium events that come before the first
\* critical match leave no trace.  Checked under SpecOverall.
C25_SinglePassIsTwoPhase ==
    pc = "done" =>
        /\ overall[1].priority_color = TwoPhase.color
        /\ overall[1].priority_issue = TwoPhase.issue

\* C25 witness: a medium event with eta_hours < 12 came before the first
\* critical match, and the result is red with the critical event's issue.
C25_Witness ==
    /\ pc = "done"
    /\ CritIdx # {}
    /\ \E i \in MedIdx : i < MinOf(CritIdx)
    /\ status[1].color # "red"
    /\ overall[1].priority_color = "red"
    /\ overall[1].priority_issue = Some(SynthIssue(events[MinOf(CritIdx)]))

\* C26: when no event is critical with eta_hours < 24 and none is medium with
\* eta_hours < 12 (an event at exactly 24, or exactly 12, and a low event do
\* not qualify), priority_color is the current colour and priority_issue the
\* current status's first issue, or none; when the current colour is red and
\* no critical event qualifies, medium events change neither.  Checked under
\* SpecOverall.
C26_NothingQualifiesKeepsStart ==
    pc = "done" =>
        LET critical == {i \in 1..Len(events) : events[i].severity = "critical"
                                                  /\ events[i].eta_hours < 24}
            medium == {i \in 1..Len(events) : events[i].severity = "medium"
                                                /\ events[i].eta_hours < 12}
            first_issue == IF Len(status[1].issues) >= 1
                           THEN Some(status[1].issues[1]) ELSE None
            kept == /\ overall[1].priority_color = status[1].color
                    /\ overall[1].priority_issue = first_issue
        IN  /\ (critical = {} /\ medium = {}) => kept
            /\ (critical = {} /\ status[1].color = "red") => kept

\* C26 witness: a green current status with events at exactly 24 h (critical),
\* exactly 12 h (medium) and a low event has kept green and no issue.
C26_Witness ==
    /\ pc = "done"
    /\ status[1].color = "green"
    /\ \E i \in 1..Len(events) : events[i].severity = "critical" /\ events[i].eta_hours = 24
    /\ \E i \in 1..Len(events) : events[i].severity = "medium" /\ events[i].eta_hours = 12
    /\ \E i \in 1..Len(events) : events[i].severity = "low"
    /\ overall[1].priority_color = "green"
    /\ overall[1].priority_issue = None

\* C26 witness, second case: a red current status with a medium event that
\* qualifies and no critical event that does has kept red and its cut_out issue.
C26_WitnessRed ==
    /\ pc = "done"
    /\ status[1].color = "red"
    /\ MedIdx # {}
    /\ CritIdx = {}
    /\ overall[1].priority_color = "red"
    /\ overall[1].priority_issue = Some(status[1].issues[1])

-----------------------------------------------------------------------------
(* Further properties of detect_pressure_systems, under SpecSystems.       *)

\* The other points of g at most 2 degrees from p in latitude and in longitude.
WithinInclusive(g, p) ==
    {q \in RangeOf(g) : q # p /\ Abs(q.lat - p.lat) <= 2 /\ Abs(q.lon - p.lon) <= 2}

\* The points that the routine puts in the list 'nearby' of p.
NearbyPoints(g, p) == {g[j] : j \in Nearby(g, p)}

ReportedAtAll(list, p) == Reported(list, "high", p) \/ Reported(list, "low", p)

\* C27 as stated: the neighbourhood of a point is exactly the other points
\* within 2 degrees of latitude and of longitude, a difference of exactly 2
\* degrees being within; the relation is symmetric; a point with no neighbour
\* is never reported.
C27_Original ==
    (pc = "systems_done" /\ Len(grid) >= 9) =>
        \A p \in RangeOf(grid) :
            /\ NearbyPoints(grid, p) = WithinInclusive(grid, p)
            /\ \A q \in RangeOf(grid) :
                   q \in NearbyPoints(grid, p) <=> p \in NearbyPoints(grid, q)
            /\ WithinInclusive(grid, p) = {} => ~ReportedAtAll(systems, p)
            /\ (/\ WithinInclusive(grid, p) # {}
                /\ p.pressure > 1015
                /\ \A q \in WithinInclusive(grid, p) : q.pressure < p.pressure)
                   => Reported(systems, "high", p)

\* C27 amended: the neighbourhood of a point is exactly the other points less
\* than 2 degrees from it in latitude and in longitude, a difference of exactly
\* 2 degrees being outside; the relation is symmetric; a point with no
\* neighbour is never reported, also when it is an extremum among the points
\* exactly 2 degrees away.
C27_NeighbourhoodStrictlyWithin ==
    (pc = "systems_done" /\ Len(grid) >= 9) =>
        LET n == Len(grid)
        IN  \A i \in 1..n :
                LET nearby == Nearby(grid, grid[i])
                IN  /\ nearby = {j \in 1..n : /\ grid[j] # grid[i]
                                              /\ Abs(grid[j].lat - grid[i].lat) < 2
                                              /\ Abs(grid[j].lon - grid[i].lon) < 2}
                    /\ \A j \in 1..n :
                           (Abs(grid[j].lat - grid[i].lat) = 2
                               \/ Abs(grid[j].lon - grid[i].lon) = 2) => j \notin nearby
                    /\ \A j \in nearby : i \in Nearby(grid, grid[j])
                    /\ nearby = {} => ~ReportedAtAll(systems, grid[i])

\* C27 witness: a point above 1015 hPa and above every point within 2 degrees
\* of it, all of them exactly 2 degrees away, has not been reported.
C27_Witness ==
    /\ pc = "systems_done"
    /\ Len(grid) >= 9
    /\ \E p \in RangeOf(grid) :
           /\ WithinInclusive(grid, p) # {}
           /\ Neighbours(grid, p) = {}
           /\ p.pressure > 1015
           /\ \A q \in WithinInclusive(grid, p) : q.pressure < p.pressure
           /\ ~ReportedAtAll(systems, p)

\* The system entries that name the point p.
EntriesOf(list, p) ==
    {k \in 1..Len(list) : /\ list[k].lat = p.lat
                          /\ list[k].lon = p.lon
                          /\ list[k].pressure = p.pressure}

\* C29: for a grid of pairwise distinct points, every point has at most one
\* entry in the result (so none is both a high and a low), no two reported
\* highs are neighbours of each other, and no two reported lows are.
C29_EachPointOnceNoAdjacentTwins ==
    (pc = "systems_done" /\ PairwiseDistinct(grid)) =>
        \A p \in RangeOf(grid) :
            /\ Cardinality(EntriesOf(systems, p)) <= 1
            /\ ~(Reported(systems, "high", p) /\ Reported(systems, "low", p))
            /\ \A q \in Neighbours(grid, p) :
                   /\ ~(Reported(systems, "high", p) /\ Reported(systems, "high", q))
                   /\ ~(Reported(systems, "low", p) /\ Reported(systems, "low", q))

\* C29 witness: a grid of pairwise distinct points has given two highs and a
\* low, each point reported once.
C29_Witness ==
    /\ pc = "systems_done"
    /\ PairwiseDistinct(grid)
    /\ \E p \in RangeOf(grid) : \E q \in RangeOf(grid) :
           /\ p # q
           /\ Reported(systems, "high", p)
           /\ Reported(systems, "high", q)
           /\ q \notin Neighbours(grid, p)
    /\ \E p \in RangeOf(grid) : Reported(systems, "low", p)

-----------------------------------------------------------------------------
(* The composed pipeline, checked under SpecPipeline.                      *)

\* Runs of the forecast that begin with a cut-out hour less than 24 hours
\* after now.
CutOutLedRuns ==
    {i \in RunStarts : /\ InCutOut(forecast[i])
                       /\ forecast[i].timestamp - current_time < 24}

\* C30: on a forecast with strictly increasing timestamps, priority_color is
\* red exactly when the current sample is in cut-out or some maximal impacted
\* run begins with a cut-out hour and starts less than 24 hours after now; a
\* cut-out hour inside a run begun by another impacted hour does not count.
C30_RedIffCutOutNowOrLeadingRun ==
    (pc = "done" /\ StrictlyIncreasing) =>
        ((overall[1].priority_color = "red") <=> (InCutOut(weather) \/ CutOutLedRuns # {}))

\* C30 witness: the current sample is not in cut-out, a run begun by a
\* non-cut-out hour holds a cut-out hour less than 24 hours after now, no run
\* begins with a cut-out hour, and priority_color is not red.
C30_Witness ==
    /\ pc = "done"
    /\ StrictlyIncreasing
    /\ ~InCutOut(weather)
    /\ \E i \in 2..Len(forecast) :
           /\ InCutOut(forecast[i])
           /\ Impacted(i - 1)
           /\ forecast[i].timestamp - current_time < 24
    /\ \A i \in RunStarts : ~InCutOut(forecast[i])
    /\ overall[1].priority_color # "red"

\* C30 witness, second case: a run that begins with a cut-out hour 23 hours
\* after now has made priority_color red over a current sample not in cut-out.
C30_WitnessRed ==
    /\ pc = "done"
    /\ StrictlyIncreasing
    /\ ~InCutOut(weather)
    /\ \E i \in CutOutLedRuns : forecast[i].timestamp - current_time = 23
    /\ overall[1].priority_color = "red"

====
